---- MODULE Spec2Model ----
(***************************************************************************)
(* Model of packages/plugin-bootstrap/src/actions/muteRoom.ts: the         *)
(* MUTE_ROOM action (validate + handler) of the bootstrap plugin, together *)
(* with the stores it talks to through IAgentRuntime: the participant-state*)
(* store, the room table and the memory ("messages") store.                *)
(*                                                                         *)
(* A reply of the model is a sequence of one-character strings, so that    *)
(* trim(), toLowerCase(), === and includes() are computed, not assumed.    *)
(* Every awaited runtime call of the handler is one step of the model.     *)
(***************************************************************************)
EXTENDS Naturals, Sequences, FiniteSets, Bags, TLC

\* Number of invocations the dispatcher starts in one behaviour.
MaxInvocations == 2

\* Task slots of the dispatcher: an invocation runs in the first free slot.
Procs == {1, 2}

Rooms == {"r1", "r2"}

\* runtime.agentId, and the entity that wrote the triggering message.
AgentId == "agent"
SenderId == "user"
Actors == {AgentId, SenderId}

\* message.content.source of the triggering message.
MessageSource == "discord"

\* getParticipantUserState: a stored state, or nothing stored for the pair.
NoState == "NONE"
ParticipantStates == {NoState, "ACTIVE", "MUTED"}

\* The handler's `state` argument: absent, or a snapshot with or without
\* state.data.room.
Snapshots == {"absent", "noRoom", "withRoom"}

\* room.name: of the stored room, and of the room object cached in a snapshot.
StoredName(r) == IF r = "r1" THEN "lobby" ELSE "dev"
CachedName(r) == IF r = "r1" THEN "lobby (snapshot)" ELSE "dev (snapshot)"
NoName == "-"

----------------------------------------------------------------------------
(* Replies of runtime.useModel.                                            *)

\* "YES"
ReplyYES == <<"Y", "E", "S">>
\* "true"
ReplyTrue == <<"t", "r", "u", "e">>
\* " Y\n"
ReplyYPadded == <<" ", "Y", "\n">>
\* "YES I think we should mute"
ReplyYesLong ==
    <<"Y", "E", "S", " ", "I", " ", "t", "h", "i", "n", "k", " ", "w", "e", " ",
      "s", "h", "o", "u", "l", "d", " ", "m", "u", "t", "e">>
\* "Not true"
ReplyNotTrue == <<"N", "o", "t", " ", "t", "r", "u", "e">>
\* "no"
ReplyNo == <<"n", "o">>
\* "False"
ReplyFalse == <<"F", "a", "l", "s", "e">>
\* "N"
ReplyN == <<"N">>
\* "no, let's keep talking"
ReplyNoLong ==
    <<"n", "o", ",", " ", "l", "e", "t", "'", "s", " ", "k", "e", "e", "p", " ",
      "t", "a", "l", "k", "i", "n", "g">>
\* "I know"
ReplyKnow == <<"I", " ", "k", "n", "o", "w">>
\* "maybe?"
ReplyMaybe == <<"m", "a", "y", "b", "e", "?">>
\* ""
ReplyEmpty == <<>>
\* "Y."
ReplyYDot == <<"Y", ".">>
\* "No. Yes"
ReplyNoYes == <<"N", "o", ".", " ", "Y", "e", "s">>

Replies ==
    {ReplyYES, ReplyTrue, ReplyYPadded, ReplyYesLong, ReplyNotTrue,
     ReplyNo, ReplyFalse, ReplyN, ReplyNoLong, ReplyKnow,
     ReplyMaybe, ReplyEmpty, ReplyYDot, ReplyNoYes}

NoReply == <<"<none>">>

----------------------------------------------------------------------------
(* String.prototype.trim, toLowerCase, includes.                           *)

UpperCase ==
    <<"A", "B", "C", "D", "E", "F", "G", "H", "I", "J", "K", "L", "M",
      "N", "O", "P", "Q", "R", "S", "T", "U", "V", "W", "X", "Y", "Z">>
LowerCase ==
    <<"a", "b", "c", "d", "e", "f", "g", "h", "i", "j", "k", "l", "m",
      "n", "o", "p", "q", "r", "s", "t", "u", "v", "w", "x", "y", "z">>
WhiteSpace == {" ", "\t", "\n", "\r"}

toLowerCaseChar(c) ==
    IF \E k \in DOMAIN UpperCase : UpperCase[k] = c
    THEN LowerCase[CHOOSE k \in DOMAIN UpperCase : UpperCase[k] = c]
    ELSE c

toLowerCase(s) == [k \in DOMAIN s |-> toLowerCaseChar(s[k])]

trim(s) ==
    LET keep == {k \in DOMAIN s : s[k] \notin WhiteSpace}
    IN  IF keep = {} THEN <<>>
        ELSE LET first == CHOOSE k \in keep : \A j \in keep : k <= j
                 last  == CHOOSE k \in keep : \A j \in keep : j <= k
             IN  SubSeq(s, first, last)

includes(s, sub) ==
    \E k \in 0 .. Len(s) :
        /\ k + Len(sub) <= Len(s)
        /\ SubSeq(s, k + 1, k + Len(sub)) = sub

\* const cleanedResponse = response.trim().toLowerCase();
cleanedResponse(response) == toLowerCase(trim(response))

\* The affirmative test with its equalities only.
IsAffirmativeExact(cleaned) ==
    \/ cleaned = <<"t", "r", "u", "e">>
    \/ cleaned = <<"y", "e", "s">>
    \/ cleaned = <<"y">>

\* The first `if` of _shouldMute.
IsAffirmative(cleaned) ==
    \/ cleaned = <<"t", "r", "u", "e">>
    \/ cleaned = <<"y", "e", "s">>
    \/ cleaned = <<"y">>
    \/ includes(cleaned, <<"t", "r", "u", "e">>)
    \/ includes(cleaned, <<"y", "e", "s">>)

\* The second `if` of _shouldMute.
IsNegative(cleaned) ==
    \/ cleaned = <<"f", "a", "l", "s", "e">>
    \/ cleaned = <<"n", "o">>
    \/ cleaned = <<"n">>
    \/ includes(cleaned, <<"f", "a", "l", "s", "e">>)
    \/ includes(cleaned, <<"n", "o">>)

----------------------------------------------------------------------------
VARIABLES
    participantState,   \* [Rooms \X Actors -> ParticipantStates]
    rooms,              \* the rooms getRoom finds
    memories,           \* bag of the records createMemory has stored
    pc,                 \* per slot: the call the invocation makes next
    msgRoom,            \* per slot: message.roomId
    snapshot,           \* per slot: the handler's `state` argument
    response,           \* per slot: what useModel returned
    roomName,           \* per slot: room.name once the room is resolved
    calls,              \* per slot: the runtime calls made, in order
    logs,               \* per slot: logger.error / logger.warn lines
    err,                \* per slot: the error the invocation threw
    before,             \* per slot: participant state when it was dispatched
    invoked,            \* invocations dispatched so far
    last                \* the invocation that finished most recently

vars ==
    <<participantState, rooms, memories, pc, msgRoom, snapshot, response,
      roomName, calls, logs, err, before, invoked, last>>

storeVars == <<participantState, rooms, memories>>

Call(op, arg) == [op |-> op, arg |-> arg]

Finished == {"done", "failed", "skipped"}

NoErr == "none"
NoRoom == "none"
NoLast == [room |-> NoRoom, result |-> "none", muted |-> FALSE]

----------------------------------------------------------------------------
(* The records the handler passes to runtime.createMemory(..., 'messages'). *)
(* The id (a fresh uuid) and createdAt (the clock) of the acknowledgment    *)
(* message are left out: no step of the handler reads them.                 *)

Memory(entity, r, text, thought, name, action, source, metaType) ==
    [entityId |-> entity, agentId |-> AgentId, roomId |-> r, text |-> text,
     thought |-> <<thought, name>>, actions |-> <<action>>,
     source |-> source, metadata |-> metaType, tableName |-> "messages"]

\* The announcement with the tag of the closing record.
StartedMemoryMistagged(r) ==
    Memory(SenderId, r, "-", "I will now mute this room", NoName,
           "MUTE_ROOM_START", MessageSource, "MUTE_ROOM")

\* _shouldMute, affirmative branch.
StartedMemory(r) ==
    Memory(SenderId, r, "-", "I will now mute this room", NoName,
           "MUTE_ROOM_STARTED", MessageSource, "MUTE_ROOM")

\* _shouldMute, negative branch.
FailedMemory(r) ==
    Memory(SenderId, r, "-", "I decided to not mute this room", NoName,
           "MUTE_ROOM_FAILED", MessageSource, "MUTE_ROOM")

\* The closing record of the handler.
ClosingMemory(r, name) ==
    Memory(SenderId, r, "-", "I muted the room ", name,
           "MUTE_ROOM_START", "-", "-")

\* muteMessage.
MuteMessage(r, name) ==
    Memory(AgentId, r, "", "I muted the room ", name,
           "MUTE_ROOM", MessageSource, "-")

----------------------------------------------------------------------------
Init ==
    /\ participantState \in [Rooms \X Actors -> ParticipantStates]
    /\ \A r \in Rooms : participantState[<<r, SenderId>>] = "ACTIVE"
    /\ rooms = {"r1"}          \* getRoom finds r1 and does not find r2
    /\ memories = EmptyBag
    /\ pc = [p \in Procs |-> "idle"]
    /\ msgRoom = [p \in Procs |-> NoRoom]
    /\ snapshot = [p \in Procs |-> "absent"]
    /\ response = [p \in Procs |-> NoReply]
    /\ roomName = [p \in Procs |-> NoName]
    /\ calls = [p \in Procs |-> <<>>]
    /\ logs = [p \in Procs |-> <<>>]
    /\ err = [p \in Procs |-> NoErr]
    /\ before = [p \in Procs |-> NoState]
    /\ invoked = 0
    /\ last = NoLast

\* validate that takes only a stored ACTIVE for "not muted".
validateStrict(r) == participantState[<<r, AgentId>>] = "ACTIVE"

\* validate without its test.
validateAlways(r) == participantState[<<r, AgentId>>] \in ParticipantStates

\* muteRoomAction.validate: roomState !== 'MUTED'.
validate(r) == participantState[<<r, AgentId>>] # "MUTED"

\* Every slot is free: the previous invocation has been collected.
Quiescent == \A q \in Procs : pc[q] = "idle"

\* The slot the dispatcher gives the next invocation.
FirstFree(p) == pc[p] = "idle" /\ \A q \in Procs : pc[q] = "idle" => p <= q

\* The dispatcher takes a message for room r with snapshot s, asks validate,
\* and runs the handler only when validate answers true.
Dispatch(p, r, s) ==
    /\ FirstFree(p)
    /\ invoked < MaxInvocations
    /\ invoked' = invoked + 1
    /\ msgRoom' = [msgRoom EXCEPT ![p] = r]
    /\ snapshot' = [snapshot EXCEPT ![p] = s]
    /\ before' = [before EXCEPT ![p] = participantState[<<r, AgentId>>]]
    /\ calls' = [calls EXCEPT ![p] = <<Call("getParticipantUserState", r)>>]
    /\ pc' = [pc EXCEPT ![p] = IF validate(r) THEN "handler" ELSE "skipped"]
    /\ UNCHANGED <<storeVars, response, roomName, logs, err, last>>

\* The request with the large text model in place of the small one.
UseModelCallLarge(p) ==
    [op |-> "useModel", arg |-> "TEXT_LARGE", prompt |-> snapshot[p],
     stopSequences |-> <<>>]

\* runtime.useModel(ModelType.TEXT_SMALL, {runtime, prompt, stopSequences: []}):
\* the prompt is composed from the snapshot the handler was given.
UseModelCall(p) ==
    [op |-> "useModel", arg |-> "TEXT_SMALL", prompt |-> snapshot[p],
     stopSequences |-> <<>>]

\* The handler without its `if (!state)` test.
HandlerStartUnchecked(p) ==
    /\ pc[p] = "handler"
    /\ calls' = [calls EXCEPT ![p] = Append(@, UseModelCall(p))]
    /\ pc' = [pc EXCEPT ![p] = "useModel"]
    /\ UNCHANGED <<storeVars, msgRoom, snapshot, response, roomName, before,
                   invoked, last, logs, err>>

\* handler, up to the await of runtime.useModel: throws without a snapshot.
HandlerStart(p) ==
    /\ pc[p] = "handler"
    /\ IF snapshot[p] = "absent"
       THEN /\ logs' = [logs EXCEPT
                   ![p] = Append(@, "error: State is required for muting a room")]
            /\ err' = [err EXCEPT ![p] = "State is required for muting a room"]
            /\ pc' = [pc EXCEPT ![p] = "failed"]
            /\ UNCHANGED calls
       ELSE /\ calls' = [calls EXCEPT ![p] = Append(@, UseModelCall(p))]
            /\ pc' = [pc EXCEPT ![p] = "useModel"]
            /\ UNCHANGED <<logs, err>>
    /\ UNCHANGED <<storeVars, msgRoom, snapshot, response, roomName, before,
                   invoked, last>>

\* Both branches announce the mute.
AfterResponseCopied(reply) ==
    IF IsAffirmative(cleanedResponse(reply)) THEN "memStarted"
    ELSE IF IsNegative(cleanedResponse(reply)) THEN "memStarted"
    ELSE "resolveRoom"

\* Any reply that is not affirmative is taken as a refusal.
AfterResponseNoDefault(reply) ==
    IF IsAffirmative(cleanedResponse(reply)) THEN "memStarted"
    ELSE "memFailed"

\* The classifier with its two tests in the other order.
AfterResponseNegativeFirst(reply) ==
    IF IsNegative(cleanedResponse(reply)) THEN "memFailed"
    ELSE IF IsAffirmative(cleanedResponse(reply)) THEN "memStarted"
    ELSE "resolveRoom"

\* The step of _shouldMute after useModel returned `reply`: which branch runs.
AfterResponse(reply) ==
    IF IsAffirmative(cleanedResponse(reply)) THEN "memStarted"
    ELSE IF IsNegative(cleanedResponse(reply)) THEN "memFailed"
    ELSE "resolveRoom"

UnclearWarning == "warn: Unclear boolean response, defaulting to false"

\* useModel resolves with `reply`; _shouldMute classifies it. With neither
\* branch taken it warns and returns false without another call.
ModelReturns(p, reply) ==
    /\ pc[p] = "useModel"
    /\ response' = [response EXCEPT ![p] = reply]
    /\ pc' = [pc EXCEPT ![p] = AfterResponse(reply)]
    /\ logs' = [logs EXCEPT ![p] =
                   IF AfterResponse(reply) = "resolveRoom"
                   THEN Append(@, UnclearWarning) ELSE @]
    /\ UNCHANGED <<storeVars, msgRoom, snapshot, roomName, calls, err, before,
                   invoked, last>>

\* A rejection of useModel caught and taken as "do not mute".
ModelFailsFallback(p) ==
    /\ pc[p] = "useModel"
    /\ err' = [err EXCEPT ![p] = "useModel rejected"]
    /\ pc' = [pc EXCEPT ![p] = "resolveRoom"]
    /\ UNCHANGED <<storeVars, msgRoom, snapshot, response, roomName, calls, logs,
                   before, invoked, last>>

\* useModel rejects (a service error, or the request was aborted): nothing
\* catches it, the handler rejects with it.
ModelFails(p) ==
    /\ pc[p] = "useModel"
    /\ err' = [err EXCEPT ![p] = "useModel rejected"]
    /\ pc' = [pc EXCEPT ![p] = "failed"]
    /\ UNCHANGED <<storeVars, msgRoom, snapshot, response, roomName, calls, logs,
                   before, invoked, last>>

\* createMemory of the MUTE_ROOM_STARTED record; _shouldMute returns true.
CreateStartedMemory(p) ==
    /\ pc[p] = "memStarted"
    /\ memories' = memories (+) SetToBag({StartedMemory(msgRoom[p])})
    /\ calls' = [calls EXCEPT ![p] = Append(@, Call("createMemory", "MUTE_ROOM_STARTED"))]
    /\ pc' = [pc EXCEPT ![p] = "setState"]
    /\ UNCHANGED <<participantState, rooms, msgRoom, snapshot, response, roomName,
                   logs, err, before, invoked, last>>

\* The refusal ends the handler: no closing step after it.
CreateFailedMemoryReturns(p) ==
    /\ pc[p] = "memFailed"
    /\ memories' = memories (+) SetToBag({FailedMemory(msgRoom[p])})
    /\ calls' = [calls EXCEPT ![p] = Append(@, Call("createMemory", "MUTE_ROOM_FAILED"))]
    /\ logs' = [logs EXCEPT ![p] = Append(@, UnclearWarning)]
    /\ pc' = [pc EXCEPT ![p] = "done"]
    /\ UNCHANGED <<participantState, rooms, msgRoom, snapshot, response, roomName,
                   err, before, invoked, last>>

\* createMemory of the MUTE_ROOM_FAILED record; the branch has no return, so
\* control falls through to the warning and `return false`.
CreateFailedMemory(p) ==
    /\ pc[p] = "memFailed"
    /\ memories' = memories (+) SetToBag({FailedMemory(msgRoom[p])})
    /\ calls' = [calls EXCEPT ![p] = Append(@, Call("createMemory", "MUTE_ROOM_FAILED"))]
    /\ logs' = [logs EXCEPT ![p] = Append(@, UnclearWarning)]
    /\ pc' = [pc EXCEPT ![p] = "resolveRoom"]
    /\ UNCHANGED <<participantState, rooms, msgRoom, snapshot, response, roomName,
                   err, before, invoked, last>>

\* The value the handler writes, and the pair it writes it for.
MutedStateActive == "ACTIVE"
MutedState == "MUTED"
MutedKeyOfSender(p) == <<msgRoom[p], SenderId>>
MutedKey(p) == <<msgRoom[p], AgentId>>

\* runtime.setParticipantUserState(message.roomId, runtime.agentId, 'MUTED').
SetParticipantUserState(p) ==
    /\ pc[p] = "setState"
    /\ participantState' = [participantState EXCEPT ![MutedKey(p)] = MutedState]
    /\ calls' = [calls EXCEPT ![p] = Append(@, Call("setParticipantUserState", MutedState))]
    /\ pc' = [pc EXCEPT ![p] = "resolveRoom"]
    /\ UNCHANGED <<rooms, memories, msgRoom, snapshot, response, roomName, logs,
                   err, before, invoked, last>>

\* Room resolution that reads the name with `room?.name`: no throw.
ResolveRoomLenient(p) ==
    /\ pc[p] = "resolveRoom"
    /\ IF snapshot[p] = "withRoom"
       THEN /\ roomName' = [roomName EXCEPT ![p] = CachedName(msgRoom[p])]
            /\ UNCHANGED calls
       ELSE /\ calls' = [calls EXCEPT ![p] = Append(@, Call("getRoom", msgRoom[p]))]
            /\ roomName' = [roomName EXCEPT ![p] =
                   IF msgRoom[p] \in rooms THEN StoredName(msgRoom[p]) ELSE NoName]
    /\ pc' = [pc EXCEPT ![p] = "memClosing"]
    /\ UNCHANGED <<storeVars, msgRoom, snapshot, response, logs, before, invoked,
                   last, err>>

\* Room resolution that looks the room up whatever the snapshot carries.
ResolveRoomAlwaysFetch(p) ==
    /\ pc[p] = "resolveRoom"
    /\ calls' = [calls EXCEPT ![p] = Append(@, Call("getRoom", msgRoom[p]))]
    /\ IF msgRoom[p] \in rooms
       THEN /\ roomName' = [roomName EXCEPT ![p] = StoredName(msgRoom[p])]
            /\ pc' = [pc EXCEPT ![p] = "memClosing"]
            /\ UNCHANGED err
       ELSE /\ err' = [err EXCEPT ![p] = "room not found"]
            /\ pc' = [pc EXCEPT ![p] = "failed"]
            /\ UNCHANGED roomName
    /\ UNCHANGED <<storeVars, msgRoom, snapshot, response, logs, before, invoked,
                   last>>

\* state.data.room ?? (await runtime.getRoom(message.roomId)), and the read
\* of room.name that follows: getRoom of an unknown room gives no room, and
\* the handler throws before it calls createMemory.
ResolveRoom(p) ==
    /\ pc[p] = "resolveRoom"
    /\ IF snapshot[p] = "withRoom"
       THEN /\ roomName' = [roomName EXCEPT ![p] = CachedName(msgRoom[p])]
            /\ pc' = [pc EXCEPT ![p] = "memClosing"]
            /\ UNCHANGED <<calls, err>>
       ELSE /\ calls' = [calls EXCEPT ![p] = Append(@, Call("getRoom", msgRoom[p]))]
            /\ IF msgRoom[p] \in rooms
               THEN /\ roomName' = [roomName EXCEPT ![p] = StoredName(msgRoom[p])]
                    /\ pc' = [pc EXCEPT ![p] = "memClosing"]
                    /\ UNCHANGED err
               ELSE /\ err' = [err EXCEPT ![p] = "room not found"]
                    /\ pc' = [pc EXCEPT ![p] = "failed"]
                    /\ UNCHANGED roomName
    /\ UNCHANGED <<storeVars, msgRoom, snapshot, response, logs, before, invoked,
                   last>>

\* createMemory of the closing record (MUTE_ROOM_START).
CreateClosingMemory(p) ==
    /\ pc[p] = "memClosing"
    /\ memories' = memories (+) SetToBag({ClosingMemory(msgRoom[p], roomName[p])})
    /\ calls' = [calls EXCEPT ![p] = Append(@, Call("createMemory", "MUTE_ROOM_START"))]
    /\ pc' = [pc EXCEPT ![p] = "memAck"]
    /\ UNCHANGED <<participantState, rooms, msgRoom, snapshot, response, roomName,
                   logs, err, before, invoked, last>>

\* createMemory(muteMessage, 'messages'); the handler returns.
CreateMuteMessage(p) ==
    /\ pc[p] = "memAck"
    /\ memories' = memories (+) SetToBag({MuteMessage(msgRoom[p], roomName[p])})
    /\ calls' = [calls EXCEPT ![p] = Append(@, Call("createMemory", "MUTE_ROOM"))]
    /\ pc' = [pc EXCEPT ![p] = "done"]
    /\ UNCHANGED <<participantState, rooms, msgRoom, snapshot, response, roomName,
                   logs, err, before, invoked, last>>

\* The store calls of the handler are awaited without a catch: a call the
\* store rejects changes nothing and the handler rejects with its error.
StoreCallAt ==
    [memStarted |-> Call("createMemory", "MUTE_ROOM_STARTED"),
     memFailed  |-> Call("createMemory", "MUTE_ROOM_FAILED"),
     setState   |-> Call("setParticipantUserState", "MUTED"),
     memClosing |-> Call("createMemory", "MUTE_ROOM_START"),
     memAck     |-> Call("createMemory", "MUTE_ROOM")]

\* A rejected MUTE_ROOM_STARTED append caught and passed over.
StoreRejectsSwallowed(p) ==
    /\ pc[p] \in DOMAIN StoreCallAt
    /\ calls' = [calls EXCEPT ![p] = Append(@, StoreCallAt[pc[p]])]
    /\ IF pc[p] = "memStarted"
       THEN /\ pc' = [pc EXCEPT ![p] = "setState"]
            /\ UNCHANGED err
       ELSE /\ err' = [err EXCEPT ![p] = "store rejected"]
            /\ pc' = [pc EXCEPT ![p] = "failed"]
    /\ UNCHANGED <<storeVars, msgRoom, snapshot, response, roomName, logs, before,
                   invoked, last>>

StoreRejects(p) ==
    /\ pc[p] \in DOMAIN StoreCallAt
    /\ calls' = [calls EXCEPT ![p] = Append(@, StoreCallAt[pc[p]])]
    /\ err' = [err EXCEPT ![p] = "store rejected"]
    /\ pc' = [pc EXCEPT ![p] = "failed"]
    /\ UNCHANGED <<storeVars, msgRoom, snapshot, response, roomName, logs, before,
                   invoked, last>>

\* The dispatcher collects a finished invocation and frees its slot.
Collect(p) ==
    /\ pc[p] \in Finished
    /\ last' = [room |-> msgRoom[p], result |-> pc[p],
                muted |-> (pc[p] = "done" /\ IsAffirmative(cleanedResponse(response[p])))]
    /\ pc' = [pc EXCEPT ![p] = "idle"]
    /\ msgRoom' = [msgRoom EXCEPT ![p] = NoRoom]
    /\ snapshot' = [snapshot EXCEPT ![p] = "absent"]
    /\ response' = [response EXCEPT ![p] = NoReply]
    /\ roomName' = [roomName EXCEPT ![p] = NoName]
    /\ calls' = [calls EXCEPT ![p] = <<>>]
    /\ logs' = [logs EXCEPT ![p] = <<>>]
    /\ err' = [err EXCEPT ![p] = NoErr]
    /\ before' = [before EXCEPT ![p] = NoState]
    /\ UNCHANGED <<storeVars, invoked>>

\* One invocation at a time: the dispatcher starts the next one when the
\* previous one has been collected.
DispatchNext == \E p \in Procs, r \in Rooms, s \in Snapshots : Quiescent /\ Dispatch(p, r, s)
Start == \E p \in Procs : HandlerStart(p)
Reply == \E p \in Procs, reply \in Replies : ModelReturns(p, reply)
ReplyFails == \E p \in Procs : ModelFails(p)
Started == \E p \in Procs : CreateStartedMemory(p)
Declined == \E p \in Procs : CreateFailedMemory(p)
Mute == \E p \in Procs : SetParticipantUserState(p)
Resolve == \E p \in Procs : ResolveRoom(p)
Closing == \E p \in Procs : CreateClosingMemory(p)
Acknowledge == \E p \in Procs : CreateMuteMessage(p)
Rejected == \E p \in Procs : StoreRejects(p)
Collected == \E p \in Procs : Collect(p)

Next ==
    \/ DispatchNext
    \/ Start
    \/ Reply
    \/ ReplyFails
    \/ Started
    \/ Declined
    \/ Mute
    \/ Resolve
    \/ Closing
    \/ Acknowledge
    \/ Rejected
    \/ Collected

Spec == Init /\ [][Next]_vars

-----------------------------------------------------------------------------
(* Invocations that overlap: the dispatcher takes the next message while     *)
(* earlier invocations are suspended at an await. Each awaited call of the   *)
(* runtime is one step, and the steps of different invocations interleave.   *)
(* The invocations stay in their slots when they have finished.              *)

\* One reply for each outcome of the classifier.
ConcurrentReplies == {ReplyYES, ReplyNo, ReplyMaybe}

DispatchConcurrent == \E p \in Procs, r \in Rooms, s \in Snapshots : Dispatch(p, r, s)
ReplyConcurrent == \E p \in Procs, reply \in ConcurrentReplies : ModelReturns(p, reply)

NextConc ==
    \/ DispatchConcurrent
    \/ Start
    \/ ReplyConcurrent
    \/ ReplyFails
    \/ Started
    \/ Declined
    \/ Mute
    \/ Resolve
    \/ Closing
    \/ Acknowledge
    \/ Rejected

SpecConc == Init /\ [][NextConc]_vars

----------------------------------------------------------------------------
(* What the properties below read off an invocation.                       *)

ReadCall(r) == Call("getParticipantUserState", r)

Made(p, op) == \E k \in DOMAIN calls[p] : calls[p][k].op = op

IsWrite(c) == c.op \in {"createMemory", "setParticipantUserState"}

\* The tags of the createMemory / setParticipantUserState calls, in order.
WriteTags(p) ==
    LET w == SelectSeq(calls[p], IsWrite) IN [k \in DOMAIN w |-> w[k].arg]

StateOf(p) == participantState[<<msgRoom[p], AgentId>>]

Resolvable(p) == snapshot[p] = "withRoom" \/ msgRoom[p] \in rooms

StoreAccepted(p) == err[p] # "store rejected"

\* Number of stored records tagged with `action`.
Stored(action) ==
    LET S == {m \in BagToSet(memories) : m.actions = <<action>>}
    IN  IF S = {} THEN 0 ELSE BagCardinality([m \in S |-> memories[m]])

\* The two rules of the classifier as the specification words them.
MatchesAffirmativeRule(reply) ==
    \E text \in {toLowerCase(trim(reply))} :
        \/ text \in {<<"t", "r", "u", "e">>, <<"y", "e", "s">>, <<"y">>}
        \/ includes(text, <<"t", "r", "u", "e">>)
        \/ includes(text, <<"y", "e", "s">>)

MatchesNegativeRule(reply) ==
    \E text \in {toLowerCase(trim(reply))} :
        \/ text \in {<<"n", "o">>, <<"f", "a", "l", "s", "e">>, <<"n">>}
        \/ includes(text, <<"n", "o">>)
        \/ includes(text, <<"f", "a", "l", "s", "e">>)

\* The replies of Replies each rule matches, written out; RulesTabulated
\* states that they are those the rules match, and is part of every property
\* that reads them.
AffirmativeReplies ==
    {ReplyYES, ReplyTrue, ReplyYPadded, ReplyYesLong, ReplyNotTrue, ReplyNoYes}

NegativeReplies ==
    {ReplyNo, ReplyFalse, ReplyN, ReplyNoLong, ReplyKnow, ReplyNotTrue, ReplyNoYes}

RulesTabulated ==
    invoked = 0 =>
        \A reply \in Replies :
            /\ reply \in AffirmativeReplies <=> MatchesAffirmativeRule(reply)
            /\ reply \in NegativeReplies <=> MatchesNegativeRule(reply)

AffirmativeReply(reply) == reply \in AffirmativeReplies
NegativeReply(reply) == reply \in NegativeReplies

Answered(p) == response[p] # NoReply

----------------------------------------------------------------------------
\* C1: an invocation dispatched for a room whose state for the agent is
\* already MUTED is stopped by validate: it never gets past "skipped", it
\* never calls useModel, and no step taken while it occupies its slot changes
\* the participant states, the room table or the stored memories.
C1_MutedRoomIsLeftAlone ==
    [][\A p \in Procs :
          (pc'[p] # "idle" /\ before'[p] = "MUTED")
              => /\ pc'[p] = "skipped"
                 /\ calls'[p] = <<ReadCall(msgRoom'[p])>>
                 /\ participantState' = participantState
                 /\ memories' = memories]_vars

C1_Witness ==
    \E p \in Procs :
        /\ pc[p] = "skipped"
        /\ before[p] = "MUTED"
        /\ StateOf(p) = "MUTED"

\* C2: an invocation that got an affirmative reply, whose room resolves and
\* whose store calls are accepted, returns normally and leaves the state of
\* (message.roomId, runtime.agentId) MUTED.
C2_AffirmativeReplyMutes ==
    /\ RulesTabulated
    /\ \A p \in Procs :
        (/\ pc[p] \in Finished
         /\ AffirmativeReply(response[p])
         /\ Resolvable(p)
         /\ StoreAccepted(p))
            => /\ pc[p] = "done"
               /\ before[p] # "MUTED"
               /\ StateOf(p) = "MUTED"

C2_Witness ==
    \E p \in Procs :
        /\ pc[p] = "done"
        /\ response[p] = ReplyYesLong
        /\ before[p] = "ACTIVE"
        /\ StateOf(p) = "MUTED"

\* C3 as stated: every reply that matches the negative rule ends without a
\* setParticipantUserState call and with the participant state as it was
\* before the invocation.
C3_NegativeRuleNeverMutes ==
    /\ RulesTabulated
    /\ \A p \in Procs :
        (pc[p] \in Finished /\ NegativeReply(response[p]))
            => /\ ~Made(p, "setParticipantUserState")
               /\ StateOf(p) = before[p]

\* C3, amended: a reply that matches the negative rule and not the
\* affirmative rule is answered with the MUTE_ROOM_FAILED record and never
\* with a setParticipantUserState call; the participant state stays as it
\* was before the invocation.
C3_PureNegativeNeverMutes ==
    /\ RulesTabulated
    /\ \A p \in Procs :
        (/\ pc[p] \in Finished
         /\ NegativeReply(response[p])
         /\ ~AffirmativeReply(response[p]))
            => /\ ~Made(p, "setParticipantUserState")
               /\ StateOf(p) = before[p]
               /\ WriteTags(p) # <<>>
               /\ WriteTags(p)[1] = "MUTE_ROOM_FAILED"

C3_Witness ==
    \E p \in Procs :
        /\ pc[p] = "done"
        /\ response[p] = ReplyNoLong
        /\ before[p] = "ACTIVE"
        /\ StateOf(p) = "ACTIVE"

\* C4: a reply that matches neither rule makes no write before the closing
\* step: no MUTE_ROOM_STARTED, no MUTE_ROOM_FAILED, no state write, and the
\* participant state stays as it was. The invocation does not fail for it:
\* with the room resolvable and the store accepting, it returns normally and
\* its only writes are the closing record and the acknowledgment message.
C4_UnclearReplyDegrades ==
    /\ RulesTabulated
    /\ \A p \in Procs :
        (/\ Answered(p)
         /\ ~AffirmativeReply(response[p])
         /\ ~NegativeReply(response[p]))
            => /\ pc[p] \in {"resolveRoom", "memClosing", "memAck"} \cup Finished
               /\ StateOf(p) = before[p]
               /\ \A k \in DOMAIN WriteTags(p) :
                     WriteTags(p)[k] \in {"MUTE_ROOM_START", "MUTE_ROOM"}
               /\ pc[p] = "failed" => err[p] \in {"room not found", "store rejected"}
               /\ (pc[p] \in Finished /\ Resolvable(p) /\ StoreAccepted(p))
                     => /\ pc[p] = "done"
                        /\ WriteTags(p) = <<"MUTE_ROOM_START", "MUTE_ROOM">>

C4_Witness ==
    \E p \in Procs :
        /\ pc[p] = "done"
        /\ response[p] = ReplyMaybe
        /\ err[p] = NoErr
        /\ WriteTags(p) = <<"MUTE_ROOM_START", "MUTE_ROOM">>

\* C5: an invocation that got an affirmative reply and returned normally
\* made exactly four writes, in this order: the MUTE_ROOM_STARTED record, the
\* state set to MUTED, the MUTE_ROOM_START closing record, the MUTE_ROOM
\* acknowledgment message; as the first invocation it leaves exactly those
\* three records in the store.
C5_MuteWritesInOrder ==
    /\ RulesTabulated
    /\ \A p \in Procs :
        (pc[p] = "done" /\ AffirmativeReply(response[p]))
            => /\ WriteTags(p) =
                    <<"MUTE_ROOM_STARTED", "MUTED", "MUTE_ROOM_START", "MUTE_ROOM">>
               /\ StateOf(p) = "MUTED"
               /\ invoked = 1 =>
                     /\ BagCardinality(memories) = 3
                     /\ Stored("MUTE_ROOM_STARTED") = 1
                     /\ Stored("MUTE_ROOM_START") = 1
                     /\ Stored("MUTE_ROOM") = 1

C5_Witness ==
    \E p \in Procs :
        /\ pc[p] = "done"
        /\ invoked = 1
        /\ before[p] = "ACTIVE"
        /\ response[p] = ReplyYesLong
        /\ BagCardinality(memories) = 3

\* C6: whatever the reply, an answered invocation whose room resolves and
\* whose store calls are accepted returns normally with the MUTE_ROOM_START
\* record and then the MUTE_ROOM message as its last two writes; after a
\* reply that is negative and not affirmative these follow exactly one
\* MUTE_ROOM_FAILED record and the participant state is as it was.
C6_ClosingIsUnconditional ==
    /\ RulesTabulated
    /\ \A p \in Procs :
        /\ (Answered(p) /\ pc[p] \in Finished /\ Resolvable(p) /\ StoreAccepted(p))
              => /\ pc[p] = "done"
                 /\ roomName[p] # NoName
                 /\ Len(WriteTags(p)) >= 2
                 /\ SubSeq(WriteTags(p), Len(WriteTags(p)) - 1, Len(WriteTags(p)))
                        = <<"MUTE_ROOM_START", "MUTE_ROOM">>
                 /\ invoked = 1 =>
                       (Stored("MUTE_ROOM_START") = 1 /\ Stored("MUTE_ROOM") = 1)
        /\ (pc[p] = "done" /\ NegativeReply(response[p]) /\ ~AffirmativeReply(response[p]))
              => /\ WriteTags(p) = <<"MUTE_ROOM_FAILED", "MUTE_ROOM_START", "MUTE_ROOM">>
                 /\ StateOf(p) = before[p]
                 /\ invoked = 1 => Stored("MUTE_ROOM_FAILED") = 1

C6_Witness ==
    \E p \in Procs :
        /\ pc[p] = "done"
        /\ response[p] = ReplyNoLong
        /\ before[p] = "ACTIVE"
        /\ StateOf(p) = "ACTIVE"
        /\ Stored("MUTE_ROOM_FAILED") = 1
        /\ Stored("MUTE_ROOM_START") = 1
        /\ Stored("MUTE_ROOM") = 1

\* C7: the invocation dispatched right after one that muted its room (an
\* affirmative reply, returned normally), for the same room, is stopped by
\* validate: it makes no call but validate's read, the state stays MUTED and
\* no step taken while it occupies its slot writes to a store.
C7_SecondInvocationIsStopped ==
    [][\A p \in Procs :
          (pc'[p] # "idle" /\ last'.muted /\ last'.room = msgRoom'[p])
              => /\ pc'[p] = "skipped"
                 /\ calls'[p] = <<ReadCall(msgRoom'[p])>>
                 /\ participantState'[<<msgRoom'[p], AgentId>>] = "MUTED"
                 /\ participantState' = participantState
                 /\ memories' = memories]_vars

C7_Witness ==
    \E p \in Procs :
        /\ pc[p] = "skipped"
        /\ invoked = 2
        /\ last.muted
        /\ last.room = msgRoom[p]
        /\ BagCardinality(memories) = 3

\* C8: a handler run without a snapshot throws "State is required for muting
\* a room" after logging it, having made no call of its own (no useModel, no
\* getRoom, no createMemory, no setParticipantUserState); no step of the
\* invocation changes a store.
C8_MissingSnapshotFailsCleanly ==
    [][\A p \in Procs :
          (snapshot'[p] = "absent" /\ pc'[p] \notin {"idle", "skipped"})
              => /\ pc'[p] \in {"handler", "failed"}
                 /\ calls'[p] = <<ReadCall(msgRoom'[p])>>
                 /\ pc'[p] = "failed" =>
                       /\ err'[p] = "State is required for muting a room"
                       /\ logs'[p] = <<"error: State is required for muting a room">>
                 /\ participantState' = participantState
                 /\ memories' = memories]_vars

C8_Witness ==
    \E p \in Procs :
        /\ pc[p] = "failed"
        /\ snapshot[p] = "absent"
        /\ err[p] = "State is required for muting a room"

\* C9: when useModel rejects, the handler rejects: it stays failed, it has
\* called useModel exactly once and made no other call after validate's read,
\* it has no reply to act on, and no step of the invocation has changed the
\* participant state or stored a memory.
C9_ModelFailureLeavesNothing ==
    [][\A p \in Procs :
          err'[p] = "useModel rejected"
              => /\ pc'[p] = "failed"
                 /\ calls'[p] = <<ReadCall(msgRoom'[p]), UseModelCall(p)>>
                 /\ response'[p] = NoReply
                 /\ participantState'[<<msgRoom'[p], AgentId>>] = before'[p]
                 /\ participantState' = participantState
                 /\ memories' = memories
                 /\ invoked' = 1 => memories' = EmptyBag]_vars

C9_Witness ==
    \E p \in Procs :
        /\ pc[p] = "failed"
        /\ err[p] = "useModel rejected"
        /\ snapshot[p] # "absent"

\* C10: an invocation whose snapshot carries no room and whose room getRoom
\* does not find fails with the room error right after the getRoom call; it
\* never reaches the closing step, so it stores neither the MUTE_ROOM_START
\* record nor the MUTE_ROOM message.
C10_UnresolvableRoomAborts ==
    \A p \in Procs :
        /\ (pc[p] \in {"memClosing", "memAck", "done"}) => Resolvable(p)
        /\ (Answered(p) /\ pc[p] \in Finished /\ ~Resolvable(p) /\ StoreAccepted(p))
              => err[p] = "room not found"
        /\ err[p] = "room not found"
              => /\ pc[p] = "failed"
                 /\ ~Resolvable(p)
                 /\ calls[p][Len(calls[p])] = Call("getRoom", msgRoom[p])
                 /\ \A k \in DOMAIN WriteTags(p) :
                       WriteTags(p)[k] \notin {"MUTE_ROOM_START", "MUTE_ROOM"}
                 /\ invoked = 1 =>
                       (Stored("MUTE_ROOM_START") = 0 /\ Stored("MUTE_ROOM") = 0)

C10_Witness ==
    \E p \in Procs :
        /\ pc[p] = "failed"
        /\ err[p] = "room not found"
        /\ snapshot[p] = "noRoom"
        /\ msgRoom[p] \notin rooms

\* C11: an invocation that failed for a missing snapshot, a rejected useModel
\* call or an unresolvable room leaves the participant state of (room, agent)
\* as it was before the invocation.
C11_FailureNeverMutates ==
    \A p \in Procs :
        (/\ pc[p] = "failed"
         /\ err[p] \in {"State is required for muting a room", "useModel rejected",
                        "room not found"})
            => StateOf(p) = before[p]

\* C12: the step that asks validate answers false (the invocation is
\* skipped) exactly when the state stored for (message.roomId,
\* runtime.agentId) at that moment is MUTED, and true (the handler runs) for
\* ACTIVE and for no stored state; the step makes the one read and changes
\* neither the participant states nor the room table nor the memories.
C12_ValidateIsAFreshPureRead ==
    [][\A p \in Procs :
          (pc[p] = "idle" /\ pc'[p] # "idle")
              => /\ pc'[p] \in {"skipped", "handler"}
                 /\ pc'[p] = "skipped"
                       <=> participantState[<<msgRoom'[p], AgentId>>] = "MUTED"
                 /\ pc'[p] = "handler"
                       <=> participantState[<<msgRoom'[p], AgentId>>] \in {NoState, "ACTIVE"}
                 /\ calls'[p] = <<ReadCall(msgRoom'[p])>>
                 /\ participantState' = participantState
                 /\ rooms' = rooms
                 /\ memories' = memories]_vars

C12_Witness ==
    \E p \in Procs :
        /\ pc[p] = "handler"
        /\ before[p] = NoState
        /\ invoked = 2
        /\ last.result = "skipped"

\* C13: an invocation that has a snapshot and has started its handler has
\* called useModel exactly once, as its first call after validate's read,
\* for the small text model, with the prompt of its snapshot and an empty
\* stopSequences list; every createMemory and setParticipantUserState call
\* (and the getRoom call) of the invocation comes after it.
C13_OneModelCallBeforeAnyWrite ==
    \A p \in Procs :
        (snapshot[p] # "absent" /\ pc[p] \notin {"idle", "skipped", "handler"})
            => /\ Len(calls[p]) >= 2
               /\ calls[p][1] = ReadCall(msgRoom[p])
               /\ calls[p][2] = [op |-> "useModel", arg |-> "TEXT_SMALL",
                                 prompt |-> snapshot[p], stopSequences |-> <<>>]
               /\ \A k \in DOMAIN calls[p] :
                      /\ calls[p][k].op = "useModel" => k = 2
                      /\ (IsWrite(calls[p][k]) \/ calls[p][k].op = "getRoom") => k > 2

C13_Witness ==
    \E p \in Procs :
        /\ pc[p] = "done"
        /\ snapshot[p] = "noRoom"
        /\ Len(calls[p]) = 7
        /\ calls[p][2].stopSequences = <<>>
        /\ calls[p][3] = Call("createMemory", "MUTE_ROOM_STARTED")

\* C14: every step that changes a participant state is the
\* setParticipantUserState call of an invocation whose reply matched the
\* affirmative rule, changes the state of (message.roomId, runtime.agentId) of
\* that invocation and of no other pair, and writes MUTED; a pair that is
\* MUTED stays MUTED.
C14_OnlyTransitionIsToMuted ==
    [][/\ RulesTabulated
       /\ \A key \in DOMAIN participantState :
              /\ participantState'[key] # participantState[key]
                    => /\ participantState'[key] = "MUTED"
                       /\ \E p \in Procs :
                              /\ pc[p] = "setState"
                              /\ pc'[p] = "resolveRoom"
                              /\ key = <<msgRoom[p], AgentId>>
                              /\ AffirmativeReply(response[p])
                              /\ calls'[p] = Append(calls[p],
                                     Call("setParticipantUserState", "MUTED"))
              /\ participantState[key] = "MUTED" => participantState'[key] = "MUTED"]_vars

C14_Witness ==
    \E p \in Procs :
        /\ pc[p] = "resolveRoom"
        /\ before[p] = NoState
        /\ StateOf(p) = "MUTED"
        /\ participantState[<<msgRoom[p], SenderId>>] = "ACTIVE"
        /\ \E r \in Rooms \ {msgRoom[p]} : participantState[<<r, AgentId>>] = "ACTIVE"

\* C15: an invocation whose reply matches both the affirmative and the
\* negative rule takes the affirmative branch: it never reaches the
\* MUTE_ROOM_FAILED append and logs no warning, and once it has finished
\* with its store calls accepted it has appended MUTE_ROOM_STARTED, then
\* called setParticipantUserState, and the state of (room, agent) is MUTED.
C15_AffirmativeRuleComesFirst ==
    /\ RulesTabulated
    /\ \A p \in Procs :
        (AffirmativeReply(response[p]) /\ NegativeReply(response[p]))
            => /\ pc[p] # "memFailed"
               /\ \A k \in DOMAIN calls[p] :
                      calls[p][k] # Call("createMemory", "MUTE_ROOM_FAILED")
               /\ logs[p] = <<>>
               /\ (pc[p] \in Finished /\ StoreAccepted(p))
                     => /\ Len(calls[p]) >= 4
                        /\ calls[p][3] = Call("createMemory", "MUTE_ROOM_STARTED")
                        /\ calls[p][4] = Call("setParticipantUserState", "MUTED")
                        /\ Stored("MUTE_ROOM_STARTED") >= 1
                        /\ before[p] # "MUTED"
                        /\ StateOf(p) = "MUTED"

C15_Witness ==
    \E p \in Procs :
        /\ pc[p] = "done"
        /\ response[p] = ReplyNoYes
        /\ before[p] = "ACTIVE"
        /\ StateOf(p) = "MUTED"
        /\ Stored("MUTE_ROOM_STARTED") = 1
        /\ Stored("MUTE_ROOM_FAILED") = 0

\* C16: an invocation that got a reply and has finished has logged the
\* "Unclear boolean response" warning exactly when the reply matches neither
\* the affirmative nor the negative rule.
C16_WarningExactlyWhenUnclear ==
    /\ RulesTabulated
    /\ \A p \in Procs :
        (pc[p] \in Finished /\ Answered(p) /\ StoreAccepted(p))
            => ((\E k \in DOMAIN logs[p] : logs[p][k] = UnclearWarning)
                    <=> (~AffirmativeReply(response[p]) /\ ~NegativeReply(response[p])))

\* C17: an invocation calls getRoom at most once, and only when its snapshot
\* carries no room. An invocation whose snapshot carries a room never fails
\* with "room not found", and the closing record and the acknowledgment it
\* stores carry the name of the snapshot's room; one whose snapshot carries no
\* room has called getRoom exactly once before its closing record.
C17_CachedRoomIsPreferred ==
    \A p \in Procs :
        /\ Len(SelectSeq(calls[p], LAMBDA c : c.op = "getRoom")) <= 1
        /\ Made(p, "getRoom") => snapshot[p] = "noRoom"
        /\ snapshot[p] = "withRoom"
              => /\ err[p] # "room not found"
                 /\ pc[p] \in {"memClosing", "memAck", "done"}
                       => roomName[p] = CachedName(msgRoom[p])
                 /\ pc[p] \in {"memAck", "done"}
                       => BagIn(ClosingMemory(msgRoom[p], CachedName(msgRoom[p])), memories)
                 /\ pc[p] = "done"
                       => BagIn(MuteMessage(msgRoom[p], CachedName(msgRoom[p])), memories)
        /\ (snapshot[p] = "noRoom" /\ pc[p] \in {"memClosing", "memAck", "done"})
              => /\ Made(p, "getRoom")
                 /\ roomName[p] = StoredName(msgRoom[p])

C17_Witness ==
    \E p \in Procs :
        /\ pc[p] = "done"
        /\ snapshot[p] = "withRoom"
        /\ msgRoom[p] \notin rooms
        /\ ~Made(p, "getRoom")
        /\ BagIn(MuteMessage(msgRoom[p], CachedName(msgRoom[p])), memories)

\* C19: every setParticipantUserState call of an invocation directly follows
\* its createMemory call for MUTE_ROOM_STARTED, and the record of that call is
\* stored for the room; a participant state that differs from the one the
\* invocation found was set to MUTED by such a call; and an invocation whose
\* MUTE_ROOM_STARTED append was rejected has made no setParticipantUserState
\* call and left the state as it found it.
C19_AuditPrecedesCommit ==
    \A p \in Procs :
        /\ \A k \in DOMAIN calls[p] :
               calls[p][k].op = "setParticipantUserState"
                   => /\ k > 1
                      /\ calls[p][k - 1] = Call("createMemory", "MUTE_ROOM_STARTED")
                      /\ BagIn(StartedMemory(msgRoom[p]), memories)
        /\ (pc[p] # "idle" /\ StateOf(p) # before[p])
               => /\ StateOf(p) = "MUTED"
                  /\ Made(p, "setParticipantUserState")
        /\ (/\ pc[p] = "failed"
            /\ err[p] = "store rejected"
            /\ calls[p][Len(calls[p])] = Call("createMemory", "MUTE_ROOM_STARTED"))
               => /\ ~Made(p, "setParticipantUserState")
                  /\ StateOf(p) = before[p]

C19_Witness ==
    \E p \in Procs :
        /\ pc[p] = "resolveRoom"
        /\ Made(p, "setParticipantUserState")
        /\ before[p] = "ACTIVE"
        /\ StateOf(p) = "MUTED"
        /\ last.result = "failed"
        /\ last.room = msgRoom[p]
        /\ memories = SetToBag({StartedMemory(msgRoom[p])})

-----------------------------------------------------------------------------
(* Overlapping invocations.                                                 *)

SetCall == Call("setParticipantUserState", "MUTED")
StartedCall == Call("createMemory", "MUTE_ROOM_STARTED")

\* The store performed call c of invocation p: p made it and it was not the
\* call the store rejected.
Performed(p, c) ==
    \E k \in DOMAIN calls[p] :
        /\ calls[p][k] = c
        /\ ~(pc[p] = "failed" /\ err[p] = "store rejected" /\ k = Len(calls[p]))

\* C18 as stated: of the invocations on one room, overlapping or not, at most
\* one performs the setParticipantUserState call, and at most one
\* MUTE_ROOM_STARTED record is stored for the room.
C18_AtMostOneMutePerRoom ==
    \A r \in Rooms :
        /\ Cardinality({p \in Procs : msgRoom[p] = r /\ Performed(p, SetCall)}) <= 1
        /\ CopiesIn(StartedMemory(r), memories) <= 1

\* C18, amended: an invocation dispatched for a room after another
\* invocation's setParticipantUserState call for that room was performed is
\* stopped by validate; an invocation stopped by validate makes no further
\* call; and an invocation that performed the set call or the
\* MUTE_ROOM_STARTED append is one whose validate read found the pair not
\* MUTED.
C18_GuardStopsLaterInvocations ==
    [][\A p \in Procs :
          /\ (/\ pc[p] = "idle"
              /\ pc'[p] # "idle"
              /\ \E q \in Procs \ {p} :
                     msgRoom[q] = msgRoom'[p] /\ Performed(q, SetCall))
                => pc'[p] = "skipped"
          /\ pc[p] = "skipped"
                => pc'[p] = "skipped" /\ calls'[p] = <<ReadCall(msgRoom[p])>>
          /\ (calls'[p] # calls[p] /\ pc'[p] # "idle" /\ Len(calls'[p]) > 1
              /\ calls'[p][Len(calls'[p])] \in {SetCall, StartedCall})
                => before[p] # "MUTED"]_vars

C18_Witness ==
    \E p, q \in Procs :
        /\ p # q
        /\ msgRoom[p] = msgRoom[q]
        /\ before[q] = "ACTIVE"
        /\ pc[q] = "resolveRoom"
        /\ Performed(q, SetCall)
        /\ pc[p] = "skipped"
        /\ before[p] = "MUTED"

\* Every dispatched invocation has finished, and at least one was dispatched.
AllFinished ==
    /\ \A p \in Procs : pc[p] \in Finished \cup {"idle"}
    /\ \E p \in Procs : pc[p] \in Finished

\* The invocations dispatched for room r.
InvocationsOn(r) == {p \in Procs : pc[p] # "idle" /\ msgRoom[p] = r}

\* C20: under every interleaving of overlapping invocations, a pair that is
\* MUTED stays MUTED, and no step of an invocation whose reply did not match
\* the affirmative rule changes a participant state; once all invocations
\* have finished, none of them stopped by a rejected store call, the state of
\* a room that some invocation found not MUTED is MUTED exactly when the
\* reply of at least one invocation on that room matched the affirmative rule.
C20_MuteIsMonotoneAndDecided ==
    [][/\ RulesTabulated
       /\ \A key \in DOMAIN participantState :
              participantState[key] = "MUTED" => participantState'[key] = "MUTED"
       /\ \A p \in Procs :
              (Answered(p) /\ ~AffirmativeReply(response[p]) /\ pc'[p] # pc[p])
                  => participantState' = participantState
       /\ (AllFinished' /\ \A p \in Procs : StoreAccepted(p)')
              => \A r \in Rooms :
                     (\E p \in InvocationsOn(r)' : before'[p] # "MUTED")
                         => (participantState'[<<r, AgentId>>] = "MUTED"
                                <=> \E p \in InvocationsOn(r)' :
                                        AffirmativeReply(response'[p]))]_vars

C20_Witness ==
    \E p, q \in Procs :
        /\ p # q
        /\ msgRoom[p] = msgRoom[q]
        /\ pc[p] = "done" /\ pc[q] = "done"
        /\ before[p] = "ACTIVE" /\ before[q] = "ACTIVE"
        /\ response[p] = ReplyYES
        /\ response[q] = ReplyNo
        /\ calls[q][Len(calls[q])] = Call("createMemory", "MUTE_ROOM")
        /\ StateOf(p) = "MUTED"

====
